---- MODULE Spec2Model ----
(***************************************************************************)
(* Model of inspect_scout/_transcript/s3_log_cache.py: the etag-gated      *)
(* DataFrame cache (get_cached_df / put_cached_df) over an injected        *)
(* key-value store, and the resolver resolve_logs_with_etag.               *)
(***************************************************************************)
EXTENDS Integers, Sequences, FiniteSets, TLC

(***************************************************************************)
(* Bounds of the model.                                                    *)
(***************************************************************************)
\* Longest DataFrame (number of rows) handed to put_cached_df.
MaxRows == 2

(***************************************************************************)
(* Values.                                                                 *)
(***************************************************************************)
\* Python's None, as an etag (str | None).
None == "None"
Etags == {"E1", "E2"}
EtagOpt == Etags \cup {None}

\* Keys of the store: log paths.  Callers cache the paths of CachedPaths; the
\* other key is looked up and never written.
Paths == {"a.log", "never-written.log"}
CachedPaths == {"a.log"}

\* A cell of a DataFrame.  t is the Python type; an int is m, a float is
\* m * 10^-e, an obj is a Python object that to_json cannot serialize.
IntV(n) == [t |-> "int", m |-> n, e |-> 0]
FloatV(mant, exp) == [t |-> "float", m |-> mant, e |-> exp]
ObjV == [t |-> "obj", m |-> 0, e |-> 0]

\* The cells the model draws from: an int, 0.00000000013 (more decimal
\* places than to_json keeps) and a non-serializable object.
Cells == {IntV(1), FloatV(13, 11), ObjV}

\* A row: a mapping from column name to cell (one column, "c").
Rows == {[c |-> v] : v \in Cells}

RECURSIVE SeqsUpTo(_, _)
SeqsUpTo(S, n) ==
    IF n = 0 THEN {<<>>}
    ELSE LET shorter == SeqsUpTo(S, n - 1)
         IN  shorter \cup {Append(s, x) : s \in {q \in shorter : Len(q) = n - 1}, x \in S}

\* The DataFrames handed to put_cached_df.
Tables == SeqsUpTo(Rows, MaxRows)

(***************************************************************************)
(* df.to_json(orient="records") followed by json.loads (line 118).         *)
(***************************************************************************)
\* pandas' to_json keeps double_precision decimal places of a float
\* (its default, which line 118 does not override).
DoublePrecision == 10

RECURSIVE Pow10(_)
Pow10(n) == IF n = 0 THEN 1 ELSE 10 * Pow10(n - 1)

\* A float without trailing zero decimals: 0.50 is 0.5.
RECURSIVE Normalize(_)
Normalize(v) ==
    IF v.e > 0 /\ v.m % 10 = 0
    THEN Normalize([v EXCEPT !.m = v.m \div 10, !.e = v.e - 1])
    ELSE v

\* The float to_json writes for v: v rounded to DoublePrecision decimals.
RoundFloat(v) ==
    IF v.e <= DoublePrecision THEN Normalize(v)
    ELSE LET unit == Pow10(v.e - DoublePrecision)
             q == v.m \div unit
             r == v.m % unit
             up == (2 * r > unit) \/ (2 * r = unit /\ q % 2 = 1)
         IN  Normalize(FloatV(IF up THEN q + 1 ELSE q, DoublePrecision))

\* The JSON value of one cell.
CellToJson(v) == IF v.t = "float" THEN RoundFloat(v) ELSE v

\* Whether to_json can serialize the frame.
Serializable(df) == \A i \in 1..Len(df) : df[i].c.t # "obj"

\* json.loads(df.to_json(orient="records")): one object per row, in order.
ToJsonRecords(df) == [i \in 1..Len(df) |-> [c |-> CellToJson(df[i].c)]]

(***************************************************************************)
(* Blobs of the key-value store.                                           *)
(***************************************************************************)
\* kvstore.get(key) of a key that holds nothing: None.
NoEntry ==
    [kind |-> "absent", hasEtag |-> FALSE, etag |-> None,
     hasRecords |-> FALSE, shape |-> "falsy", rows |-> <<>>]

\* A cache_data dict that leaves the "etag" key out when the etag is None.
cache_data_omit_null_etag(etag, records) ==
    [kind |-> "object", hasEtag |-> etag # None, etag |-> etag,
     hasRecords |-> TRUE, shape |-> "list", rows |-> records]

\* json.dumps({"etag": etag, "records": records}) (lines 120-125).
cache_data(etag, records) ==
    [kind |-> "object", hasEtag |-> TRUE, etag |-> etag,
     hasRecords |-> TRUE, shape |-> "list", rows |-> records]

\* Blobs written to the store by something other than put_cached_df:
\* text that is not JSON, JSON that is not an object, an object lacking
\* "etag", an object lacking "records", and an object whose "records" is a
\* falsy scalar (0, "", null) or a truthy scalar (5).
OneRow == <<[c |-> IntV(1)]>>
ForeignBlobs ==
    {[NoEntry EXCEPT !.kind = "malformed"],
     [NoEntry EXCEPT !.kind = "json_other"]}
    \cup {[cache_data(None, OneRow) EXCEPT !.hasEtag = FALSE]}
    \cup {[cache_data(et, <<>>) EXCEPT !.hasRecords = FALSE, !.shape = "falsy"] : et \in EtagOpt}
    \cup {[cache_data(et, <<>>) EXCEPT !.shape = sh] : et \in EtagOpt, sh \in {"falsy", "scalar"}}

(***************************************************************************)
(* get_cached_df (lines 68-102).                                           *)
(***************************************************************************)
ReturnNone == [outcome |-> "none", table |-> <<>>]
ReturnTable(t) == [outcome |-> "table", table |-> t]
Raise == [outcome |-> "raise", table |-> <<>>]

\* pd.DataFrame.from_records(records) (line 98): the rows of a list of row
\* objects; a scalar has no len() and raises.
from_records(blob) ==
    IF blob.shape = "list" THEN ReturnTable(blob.rows) ELSE Raise

\* `not records` (line 95): an empty list, a missing key (default []) or a
\* falsy scalar.
records_falsy(blob) ==
    \/ ~blob.hasRecords
    \/ blob.shape = "falsy"
    \/ blob.shape = "list" /\ blob.rows = <<>>

\* cached_data.get("etag") (line 87): None when the key is missing.
cached_etag(blob) == IF blob.hasEtag THEN blob.etag ELSE None

\* get_cached_df's try block without the etag comparison of lines 90-91.
get_cached_df_try_no_etag_check(kvstore, log_path, current_etag, getFails) ==
    IF getFails THEN Raise
    ELSE LET cached_value == kvstore[log_path]
         IN  IF cached_value = NoEntry THEN ReturnNone
             ELSE IF cached_value.kind # "object" THEN Raise
             ELSE IF records_falsy(cached_value) THEN ReturnNone
             ELSE from_records(cached_value)

\* get_cached_df's try block giving an empty frame, not None, for a key the
\* store does not hold (lines 83-84).
get_cached_df_try_empty_frame(kvstore, log_path, current_etag, getFails) ==
    IF getFails THEN Raise
    ELSE LET cached_value == kvstore[log_path]
         IN  IF cached_value = NoEntry THEN ReturnTable(<<>>)
             ELSE IF cached_value.kind # "object" THEN Raise
             ELSE IF cached_etag(cached_value) # current_etag THEN ReturnNone
             ELSE IF records_falsy(cached_value) THEN ReturnNone
             ELSE from_records(cached_value)

\* get_cached_df's try block without the `not records` test of lines 95-96:
\* from_records of no rows is an empty frame.
get_cached_df_try_no_empty_check(kvstore, log_path, current_etag, getFails) ==
    IF getFails THEN Raise
    ELSE LET cached_value == kvstore[log_path]
         IN  IF cached_value = NoEntry THEN ReturnNone
             ELSE IF cached_value.kind # "object" THEN Raise
             ELSE IF cached_etag(cached_value) # current_etag THEN ReturnNone
             ELSE IF ~cached_value.hasRecords THEN ReturnTable(<<>>)
             ELSE from_records(cached_value)

\* The body of the try block (lines 82-98).  getFails: kvstore.get raises.
get_cached_df_try(kvstore, log_path, current_etag, getFails) ==
    IF getFails THEN Raise
    ELSE LET cached_value == kvstore[log_path]
         IN  IF cached_value = NoEntry THEN ReturnNone
             ELSE IF cached_value.kind # "object" THEN Raise
             ELSE IF cached_etag(cached_value) # current_etag THEN ReturnNone
             ELSE IF records_falsy(cached_value) THEN ReturnNone
             ELSE from_records(cached_value)

\* get_cached_df without the except clause of lines 100-102.
get_cached_df_no_except(kvstore, log_path, current_etag, getFails) ==
    get_cached_df_try(kvstore, log_path, current_etag, getFails)

\* Lines 81-102: any exception of the try block is a miss.
get_cached_df(kvstore, log_path, current_etag, getFails) ==
    LET r == get_cached_df_try(kvstore, log_path, current_etag, getFails)
    IN  IF r.outcome = "raise" THEN ReturnNone ELSE r

(***************************************************************************)
(* put_cached_df (lines 105-129).                                          *)
(***************************************************************************)
\* A try block that stores the entry before its rows are serialized: a
\* table that cannot be serialized leaves an entry with the new etag and no
\* rows behind.
put_cached_df_try_etag_first(kvstore, log_path, etag, df, putFails) ==
    IF ~Serializable(df)
    THEN [outcome |-> "raise", fault |-> "serialize",
          kvstore |-> [kvstore EXCEPT ![log_path] = cache_data(etag, <<>>)]]
    ELSE IF putFails
    THEN [outcome |-> "raise", fault |-> "store", kvstore |-> kvstore]
    ELSE [outcome |-> "return", fault |-> "none",
          kvstore |-> [kvstore EXCEPT ![log_path] = cache_data(etag, ToJsonRecords(df))]]

\* A try block that writes every key of the store, not only log_path.
put_cached_df_try_all_keys(kvstore, log_path, etag, df, putFails) ==
    IF ~Serializable(df)
    THEN [outcome |-> "raise", fault |-> "serialize", kvstore |-> kvstore]
    ELSE IF putFails
    THEN [outcome |-> "raise", fault |-> "store", kvstore |-> kvstore]
    ELSE [outcome |-> "return", fault |-> "none",
          kvstore |-> [k \in DOMAIN kvstore |-> cache_data(etag, ToJsonRecords(df))]]

\* The body of the try block (lines 117-125).  putFails: kvstore.put raises
\* and stores nothing.
put_cached_df_try(kvstore, log_path, etag, df, putFails) ==
    IF ~Serializable(df)
    THEN [outcome |-> "raise", fault |-> "serialize", kvstore |-> kvstore]
    ELSE IF putFails
    THEN [outcome |-> "raise", fault |-> "store", kvstore |-> kvstore]
    ELSE [outcome |-> "return", fault |-> "none",
          kvstore |-> [kvstore EXCEPT ![log_path] = cache_data(etag, ToJsonRecords(df))]]

\* put_cached_df without the except clause of lines 127-129.
put_cached_df_no_except(kvstore, log_path, etag, df, putFails) ==
    put_cached_df_try(kvstore, log_path, etag, df, putFails)

\* Lines 116-129: any exception of the try block is swallowed.
put_cached_df(kvstore, log_path, etag, df, putFails) ==
    LET r == put_cached_df_try(kvstore, log_path, etag, df, putFails)
    IN  IF r.outcome = "raise" THEN [r EXCEPT !.outcome = "return"] ELSE r

(***************************************************************************)
(* The storage backend: fs.info and fs.ls (lines 51-55).                   *)
(***************************************************************************)
\* Most content versions a file of the backend goes through.
MaxVersions == 2
\* Longest list of references handed to resolve_logs_with_etag.
MaxRefs == 2

\* The files and directories a backend can hold, in the order fs.ls lists
\* them, and the directory each is directly in ("" is the root).
Files == {"a.log", "d/b.log", "d/notes.txt", "d/sub/c.log"}
Dirs == {"d", "d/sub"}
ListingOrder == <<"a.log", "d/b.log", "d/notes.txt", "d/sub", "d/sub/c.log">>
ParentOf ==
    [n \in Files \cup Dirs |->
        CASE n \in {"a.log", "d"} -> ""
          [] n \in {"d/b.log", "d/notes.txt", "d/sub"} -> "d"
          [] OTHER -> "d/sub"]

\* Whether entry n lies anywhere below directory dir.
RECURSIVE Under(_, _)
Under(dir, n) ==
    LET up == ParentOf[n]
    IN  up # "" /\ (up = dir \/ Under(dir, up))

\* The etag an object store reports for content version v of a file.
VersionEtag(v) == <<"E1", "E2", "E3", "E4">>[v]

\* A backend: per file its content version (0: the file does not exist),
\* and whether the backend is an object store, which reports etags.
Backends == [ver : [Files -> 0..MaxVersions], s3 : BOOLEAN]

Exists(be, n) == n \in Dirs \/ (n \in Files /\ be.ver[n] > 0)

\* The FileInfo of entry n: name, type and etag (None without an object store).
FileInfo(be, n) ==
    [name |-> n,
     type |-> IF n \in Dirs THEN "directory" ELSE "file",
     etag |-> IF n \in Files /\ be.s3 THEN VersionEtag(be.ver[n]) ELSE None]

\* fs.ls(dir) without recursive=True: the entries directly in dir.
fs_ls_not_recursive(be, dir) ==
    LET below == SelectSeq(ListingOrder, LAMBDA n : Exists(be, n) /\ ParentOf[n] = dir)
    IN  [i \in 1..Len(below) |-> FileInfo(be, below[i])]

\* fs.ls(dir, recursive=True): every entry below dir, files and directories.
fs_ls(be, dir) ==
    LET below == SelectSeq(ListingOrder, LAMBDA n : Exists(be, n) /\ Under(dir, n))
    IN  [i \in 1..Len(below) |-> FileInfo(be, below[i])]

(***************************************************************************)
(* resolve_logs_with_etag (lines 18-65).                                   *)
(***************************************************************************)
\* What counts as a log file is inspect_ai's concern: by its name.
LogNames == {"a.log", "d/b.log", "d/sub/c.log", "never-written.log"}

\* log_files_from_ls(log_paths, sort=False) (line 60): the files with a log
\* file's name, in the order given.
log_files_from_ls(log_paths) ==
    SelectSeq(log_paths, LAMBDA fi : fi.type = "file" /\ fi.name \in LogNames)

\* Lines 51-58 for one reference: a directory expands to the files below it,
\* anything else is kept as it is.  unreachable: the references the backend
\* fails on; a path that does not exist fails too.
expand(be, log_str, unreachable) ==
    IF log_str \in unreachable \/ ~Exists(be, log_str)
    THEN [outcome |-> "raise", infos |-> <<>>]
    ELSE LET info == FileInfo(be, log_str)
         IN  IF info.type = "directory"
             THEN [outcome |-> "ok",
                   infos |-> SelectSeq(fs_ls(be, info.name), LAMBDA fi : fi.type = "file")]
             ELSE [outcome |-> "ok", infos |-> <<info>>]

\* The loop of lines 49-58 with a failing reference skipped, not raised.
RECURSIVE expand_all_skip_failures(_, _, _)
expand_all_skip_failures(be, logs_str, unreachable) ==
    IF logs_str = <<>> THEN [outcome |-> "ok", infos |-> <<>>]
    ELSE LET first == expand(be, Head(logs_str), unreachable)
             others == expand_all_skip_failures(be, Tail(logs_str), unreachable)
         IN  [outcome |-> "ok", infos |-> first.infos \o others.infos]

\* The loop of lines 49-58: the first failure ends it.
RECURSIVE expand_all(_, _, _)
expand_all(be, logs_str, unreachable) ==
    IF logs_str = <<>> THEN [outcome |-> "ok", infos |-> <<>>]
    ELSE LET first == expand(be, Head(logs_str), unreachable)
             others == expand_all(be, Tail(logs_str), unreachable)
         IN  IF first.outcome = "raise" \/ others.outcome = "raise"
             THEN [outcome |-> "raise", infos |-> <<>>]
             ELSE [outcome |-> "ok", infos |-> first.infos \o others.infos]

\* etag_map keeping the etag of the first FileInfo of a name, not the last.
etag_map_get_first(log_paths, name) ==
    LET at == {i \in 1..Len(log_paths) : log_paths[i].name = name}
    IN  IF at = {} THEN None
        ELSE log_paths[CHOOSE i \in at : \A j \in at : i <= j].etag

\* etag_map.get(name) (lines 63, 65): the etag of the last FileInfo of that
\* name, None when there is none.
etag_map_get(log_paths, name) ==
    LET at == {i \in 1..Len(log_paths) : log_paths[i].name = name}
    IN  IF at = {} THEN None
        ELSE log_paths[CHOOSE i \in at : \A j \in at : j <= i].etag

\* Lines 60-65: one pair per log file of log_files_from_ls, in its order,
\* with the etag etag_map holds for its name.
etag_pairs(log_paths) ==
    LET log_files == log_files_from_ls(log_paths)
    IN  [i \in 1..Len(log_files) |->
            <<log_files[i].name, etag_map_get(log_paths, log_files[i].name)>>]

\* resolve_logs_with_etag building its output from the keys of etag_map
\* (line 63), one pair per name.
RECURSIVE FirstOccurrences(_)
FirstOccurrences(fis) ==
    IF fis = <<>> THEN <<>>
    ELSE LET front == FirstOccurrences(SubSeq(fis, 1, Len(fis) - 1))
             fi == fis[Len(fis)]
         IN  IF \E i \in 1..Len(front) : front[i].name = fi.name
             THEN front ELSE Append(front, fi)
resolve_logs_with_etag_per_name(be, logs_str, unreachable) ==
    LET log_paths == expand_all(be, logs_str, unreachable)
        log_files == FirstOccurrences(log_files_from_ls(log_paths.infos))
    IN  IF log_paths.outcome = "raise"
        THEN [outcome |-> "raise", pairs |-> <<>>]
        ELSE [outcome |-> "ok",
              pairs |-> [i \in 1..Len(log_files) |->
                            <<log_files[i].name, etag_map_get(log_paths.infos, log_files[i].name)>>]]

\* Lines 18-65.
resolve_logs_with_etag(be, logs_str, unreachable) ==
    LET log_paths == expand_all(be, logs_str, unreachable)
    IN  IF log_paths.outcome = "raise"
        THEN [outcome |-> "raise", pairs |-> <<>>]
        ELSE [outcome |-> "ok", pairs |-> etag_pairs(log_paths.infos)]

\* The position of the first reference of logs_str whose stat or list fails
\* (0: none does).
FirstFailure(be, logs_str, unreachable) ==
    LET failing == {i \in 1..Len(logs_str) :
                        logs_str[i] \in unreachable \/ ~Exists(be, logs_str[i])}
    IN  IF failing = {} THEN 0 ELSE CHOOSE i \in failing : \A j \in failing : i <= j

\* The references the model resolves.
RefNames == {"a.log", "d", "d/sub", "d/b.log", "d/notes.txt"}
RefLists == SeqsUpTo(RefNames, MaxRefs)

(***************************************************************************)
(* The caller's workflow around the cache.                                 *)
(***************************************************************************)
\* The table parsed from content version v of a log file.
ParseOf(v) == <<[c |-> FloatV(10 * v + 5, 1)], [c |-> FloatV(10 * v + 3, 11)]>>

Idle == [pc |-> "idle", etag |-> None, ver |-> 0, hit |-> FALSE, used |-> <<>>]

(***************************************************************************)
(* Concurrent callers of the cache.                                        *)
(***************************************************************************)
Procs == {"w1", "w2", "r1"}
IdleProc == [pc |-> "idle", etag |-> None, blob |-> NoEntry, outcome |-> "none", table |-> <<>>]

(***************************************************************************)
(* State.                                                                  *)
(***************************************************************************)
VARIABLES
    store,      \* the injected key-value store: path -> blob
    written,    \* per path, the arguments of the last put_cached_df whose
                \* store write succeeded and what that write replaced (history;
                \* cleared by a foreign write)
    last,       \* the last cache call: operation, arguments, what the caller saw
    backend,    \* the storage backend
    refs,       \* the references handed to resolve_logs_with_etag
    resolved,   \* what resolve_logs_with_etag gave for refs
    caller,     \* the caller of the workflow: its step, the etag it holds,
                \* the content version that etag was resolved from, the table it uses
    call,       \* the last resolve_logs_with_etag call: whether one came before
                \* it, and the position of the first reference the backend
                \* failed on (0: none)
    loop,       \* a resolve_logs_with_etag call in progress: the position in
                \* refs and log_paths so far
    procs       \* concurrent callers of the cache: what each is doing

vars == <<store, written, last, backend, refs, resolved, caller, call, loop, procs>>

NotWritten == [valid |-> FALSE, etag |-> None, df |-> <<>>, over |-> "nothing"]

\* What a write with etag et to path p replaces: nothing, a foreign blob, or
\* an entry put_cached_df wrote with the same etag (with rows, or empty) or
\* with another etag.
Replaced(p, et) ==
    IF store[p] = NoEntry THEN "nothing"
    ELSE IF ~written[p].valid THEN "foreign"
    ELSE IF written[p].etag # et THEN "other_etag"
    ELSE IF written[p].df # <<>> THEN "same_etag_rows"
    ELSE "same_etag_empty"
NoCall ==
    [op |-> "init", path |-> "a.log", etag |-> None,
     outcome |-> "none", fault |-> "none", table |-> <<>>]
NotResolved == [outcome |-> "pending", pairs |-> <<>>]
OneLog == [ver |-> [f \in Files |-> IF f = "a.log" THEN 1 ELSE 0], s3 |-> TRUE]

NotCalled == [again |-> FALSE, failedAt |-> 0]
NoLoop == [i |-> 0, log_paths |-> <<>>]

\* An empty store, no call made.
InitCache ==
    /\ store = [p \in Paths |-> NoEntry]
    /\ written = [p \in Paths |-> NotWritten]
    /\ last = NoCall
    /\ call = NotCalled
    /\ loop = NoLoop
    /\ procs = [i \in Procs |-> IdleProc]

Init ==
    /\ InitCache
    /\ backend = OneLog
    /\ refs = <<>>
    /\ resolved = NotResolved
    /\ caller = Idle

(***************************************************************************)
(* The cache's operations.                                                 *)
(***************************************************************************)
\* A caller runs put_cached_df(store, p, et, df).
Put(p, et, df, putFails) ==
    LET r == put_cached_df(store, p, et, df, putFails)
    IN  /\ store' = r.kvstore
        /\ written' = IF r.fault = "none"
                      THEN [written EXCEPT ![p] = [valid |-> TRUE, etag |-> et, df |-> df,
                                                   over |-> Replaced(p, et)]]
                      ELSE written
        /\ last' = [op |-> "put", path |-> p, etag |-> et,
                    outcome |-> r.outcome, fault |-> r.fault, table |-> <<>>]
        /\ UNCHANGED <<backend, refs, resolved, caller, call, loop, procs>>

\* A get_cached_df that deletes the entry it does not return.
Get_deletes_missed(p, et, getFails) ==
    LET r == get_cached_df(store, p, et, getFails)
    IN  /\ last' = [op |-> "get", path |-> p, etag |-> et,
                    outcome |-> r.outcome,
                    fault |-> IF getFails THEN "store" ELSE "none",
                    table |-> r.table]
        /\ store' = IF r.outcome = "none" THEN [store EXCEPT ![p] = NoEntry] ELSE store
        /\ UNCHANGED <<written, backend, refs, resolved, caller, call, loop, procs>>

\* A caller runs get_cached_df(store, p, et).
Get(p, et, getFails) ==
    LET r == get_cached_df(store, p, et, getFails)
    IN  /\ last' = [op |-> "get", path |-> p, etag |-> et,
                    outcome |-> r.outcome,
                    fault |-> IF getFails THEN "store" ELSE "none",
                    table |-> r.table]
        /\ UNCHANGED <<store, written, backend, refs, resolved, caller, call, loop, procs>>

\* Something else writes a blob directly under a key of the store.
ForeignWrite(p, blob) ==
    /\ store' = [store EXCEPT ![p] = blob]
    /\ written' = [written EXCEPT ![p] = NotWritten]
    /\ last' = [op |-> "foreign", path |-> p, etag |-> None,
                outcome |-> "none", fault |-> "none", table |-> <<>>]
    /\ UNCHANGED <<backend, refs, resolved, caller, call, loop, procs>>

Next ==
    \/ \E p \in CachedPaths, et \in EtagOpt, df \in Tables, f \in BOOLEAN : Put(p, et, df, f)
    \/ \E p \in Paths, et \in EtagOpt, f \in BOOLEAN : Get(p, et, f)
    \/ \E p \in CachedPaths, blob \in ForeignBlobs : ForeignWrite(p, blob)

Spec == Init /\ [][Next]_vars

(***************************************************************************)
(* The cache used by this module alone, on every key of the store: only    *)
(* put_cached_df and get_cached_df touch the store.                        *)
(***************************************************************************)
KeyEtags == {"E1", None}
KeyTables == {<<>>} \cup {<<r>> : r \in Rows}

NextKeys ==
    \/ \E p \in Paths, et \in KeyEtags, df \in KeyTables, f \in BOOLEAN : Put(p, et, df, f)
    \/ \E p \in Paths, et \in KeyEtags, f \in BOOLEAN : Get(p, et, f)

SpecKeys == Init /\ [][NextKeys]_vars

(***************************************************************************)
(* The resolver, applied to a drawn backend and list of references.        *)
(***************************************************************************)
InitResolve ==
    /\ InitCache
    /\ backend \in Backends
    /\ refs \in RefLists
    /\ resolved = NotResolved
    /\ caller = Idle

\* resolve_logs_with_etag with log_paths kept from one call to the next (a
\* list that outlives the call of line 49).
Resolve_keeps_log_paths(unreachable) ==
    /\ resolved' = LET r == resolve_logs_with_etag(backend, refs, unreachable)
                   IN  [r EXCEPT !.pairs = IF r.outcome = "ok" THEN resolved.pairs \o @ ELSE @]
    /\ call' = [again |-> resolved.outcome # "pending",
                failedAt |-> FirstFailure(backend, refs, unreachable)]
    /\ UNCHANGED <<store, written, last, backend, refs, caller, loop, procs>>

\* A caller runs resolve_logs_with_etag(refs).
Resolve(unreachable) ==
    /\ resolved' = resolve_logs_with_etag(backend, refs, unreachable)
    /\ call' = [again |-> resolved.outcome # "pending",
                failedAt |-> FirstFailure(backend, refs, unreachable)]
    /\ UNCHANGED <<store, written, last, backend, refs, caller, loop, procs>>

NextResolve ==
    \E bad \in {{}} \cup {{refs[i]} : i \in 1..Len(refs)} : Resolve(bad)

SpecResolve == InitResolve /\ [][NextResolve]_vars

(***************************************************************************)
(* The workflow: resolve, get_cached_df, on a miss fetch and parse the     *)
(* source and put_cached_df with the etag resolved.                        *)
(***************************************************************************)
InitFlow ==
    /\ InitCache
    /\ \E v \in 1..MaxVersions, s \in BOOLEAN :
          backend = [OneLog EXCEPT !.ver["a.log"] = v, !.s3 = s]
    /\ refs = <<"a.log">>
    /\ resolved = NotResolved
    /\ caller = Idle

\* The caller resolves its reference and holds the etag of the pair.
CallerResolve ==
    /\ caller.pc = "idle"
    /\ resolved' = resolve_logs_with_etag(backend, refs, {})
    /\ caller' = [Idle EXCEPT !.pc = "resolved",
                              !.etag = resolved'.pairs[1][2],
                              !.ver = backend.ver[resolved'.pairs[1][1]]]
    /\ UNCHANGED <<store, written, last, backend, refs, call, loop, procs>>

\* The caller asks the cache: a hit is the table it uses.
CallerGet(getFails) ==
    /\ caller.pc = "resolved"
    /\ LET p == resolved.pairs[1][1]
           r == get_cached_df(store, p, caller.etag, getFails)
       IN  caller' = IF r.outcome = "table"
                     THEN [caller EXCEPT !.pc = "done", !.hit = TRUE, !.used = r.table]
                     ELSE [caller EXCEPT !.pc = "miss"]
    /\ UNCHANGED <<store, written, last, backend, refs, resolved, call, loop, procs>>

\* On a miss the caller parses the source as it is now and writes the table
\* back with the etag it holds.
CallerFetchPut(putFails) ==
    /\ caller.pc = "miss"
    /\ LET p == resolved.pairs[1][1]
           df == ParseOf(backend.ver[p])
       IN  /\ store' = put_cached_df(store, p, caller.etag, df, putFails).kvstore
           /\ caller' = [caller EXCEPT !.pc = "done", !.used = df]
    /\ UNCHANGED <<written, last, backend, refs, resolved, call, loop, procs>>

\* The caller starts over.
CallerAgain ==
    /\ caller.pc = "done"
    /\ caller' = Idle
    /\ resolved' = NotResolved
    /\ UNCHANGED <<store, written, last, backend, refs, call, loop, procs>>

\* The source's content changes to version v.
SourceChange(v) ==
    /\ v # backend.ver["a.log"]
    /\ backend' = [backend EXCEPT !.ver["a.log"] = v]
    /\ UNCHANGED <<store, written, last, refs, resolved, caller, call, loop, procs>>

\* The stored blob is corrupted into a malformed value.
Corrupt(p) ==
    /\ store[p] # NoEntry
    /\ store' = [store EXCEPT ![p] = [NoEntry EXCEPT !.kind = "malformed"]]
    /\ UNCHANGED <<written, last, backend, refs, resolved, caller, call, loop, procs>>

NextFlow ==
    \/ CallerResolve
    \/ \E f \in BOOLEAN : CallerGet(f)
    \/ \E f \in BOOLEAN : CallerFetchPut(f)
    \/ CallerAgain
    \/ \E v \in 1..MaxVersions : SourceChange(v)
    \/ \E p \in CachedPaths : Corrupt(p)

SpecFlow == InitFlow /\ [][NextFlow]_vars

(***************************************************************************)
(* The resolver reference by reference, against a backend that changes     *)
(* while the loop of lines 50-58 runs.                                     *)
(***************************************************************************)
InitResolveLoop ==
    /\ InitCache
    /\ \E s \in BOOLEAN : backend = [ver |-> [f \in Files |-> 1], s3 |-> s]
    /\ refs \in RefLists
    /\ resolved = NotResolved
    /\ caller = Idle

\* Line 49: log_paths = [].
ResolveBegin ==
    /\ loop.i = 0 /\ resolved.outcome = "pending"
    /\ loop' = [i |-> 1, log_paths |-> <<>>]
    /\ UNCHANGED <<store, written, last, backend, refs, resolved, caller, call, procs>>

\* Lines 50-58 for the next reference: its FileInfos join log_paths, or the
\* failure ends the call.
ResolveRef(unreachable) ==
    /\ loop.i \in 1..Len(refs)
    /\ LET e == expand(backend, refs[loop.i], unreachable)
       IN  IF e.outcome = "raise"
           THEN /\ resolved' = [outcome |-> "raise", pairs |-> <<>>]
                /\ call' = [call EXCEPT !.failedAt = loop.i]
                /\ loop' = NoLoop
           ELSE /\ loop' = [i |-> loop.i + 1, log_paths |-> loop.log_paths \o e.infos]
                /\ UNCHANGED <<resolved, call>>
    /\ UNCHANGED <<store, written, last, backend, refs, caller, procs>>

\* Lines 60-65: the pairs are returned.  log_paths stays in loop, as the
\* record of what the pairs were built from.
ResolveReturn ==
    /\ loop.i = Len(refs) + 1
    /\ resolved' = [outcome |-> "ok", pairs |-> etag_pairs(loop.log_paths)]
    /\ loop' = [loop EXCEPT !.i = 0]
    /\ UNCHANGED <<store, written, last, backend, refs, caller, call, procs>>

\* The content of d/b.log changes to version v (0: the file is removed).
BackendChange(v) ==
    /\ v # backend.ver["d/b.log"]
    /\ backend' = [backend EXCEPT !.ver["d/b.log"] = v]
    /\ UNCHANGED <<store, written, last, refs, resolved, caller, call, loop, procs>>

NextResolveLoop ==
    \/ ResolveBegin
    \/ \E fails \in BOOLEAN :
          ResolveRef(IF fails /\ loop.i \in 1..Len(refs) THEN {refs[loop.i]} ELSE {})
    \/ ResolveReturn
    \/ \E v \in 0..MaxVersions : BackendChange(v)

SpecResolveLoop == InitResolveLoop /\ [][NextResolveLoop]_vars

(***************************************************************************)
(* Concurrent callers on one key.  put_cached_df is two steps: building    *)
(* cache_data (lines 118-123) and kvstore.put (line 125); get_cached_df is *)
(* two steps: kvstore.get (line 82) and decoding what it gave (lines       *)
(* 83-98).  The store's get and put are atomic; a store that is not lets a *)
(* get that runs against a put in progress see a torn value.               *)
(***************************************************************************)
Writers == {"w1", "w2"}
Readers == {"r1"}
SharedKey == "a.log"
ConcTables == {<<r>> : r \in Rows}

\* The values a get can see while new is written over old on a store whose
\* put is not atomic: text that is no JSON, or, when the pieces fit, an
\* object with the etag of one and the rows of the other.
TornBlobs(old, new) ==
    {[NoEntry EXCEPT !.kind = "malformed"]}
    \cup (IF old.kind = "object"
          THEN {[new EXCEPT !.rows = old.rows], [old EXCEPT !.rows = new.rows]}
          ELSE {})

InitConc ==
    /\ InitCache
    /\ backend = OneLog
    /\ refs = <<>>
    /\ resolved = NotResolved
    /\ caller = Idle

\* Lines 118-123 of put_cached_df(store, SharedKey, et, df) by caller i.
PutSerialize(i, et, df) ==
    /\ i \in Writers /\ procs[i].pc = "idle"
    /\ procs' = [procs EXCEPT ![i] =
                    IF Serializable(df)
                    THEN [pc |-> "put_ready", etag |-> et,
                          blob |-> cache_data(et, ToJsonRecords(df)),
                          outcome |-> "none", table |-> df]
                    ELSE [pc |-> "done", etag |-> et, blob |-> NoEntry,
                          outcome |-> "return", table |-> df]]
    /\ UNCHANGED <<store, written, last, backend, refs, resolved, caller, call, loop>>

\* Line 125 by caller i: the store's put, atomic; when it raises, nothing
\* is stored and the exception is swallowed (lines 127-129).
PutStore(i, putFails) ==
    /\ i \in Writers /\ procs[i].pc = "put_ready"
    /\ IF putFails
       THEN UNCHANGED <<store, written>>
       ELSE /\ store' = [store EXCEPT ![SharedKey] = procs[i].blob]
            /\ written' = [written EXCEPT ![SharedKey] =
                              [valid |-> TRUE, etag |-> procs[i].etag, df |-> procs[i].table,
                               over |-> Replaced(SharedKey, procs[i].etag)]]
    /\ procs' = [procs EXCEPT ![i].pc = "done", ![i].outcome = "return"]
    /\ UNCHANGED <<last, backend, refs, resolved, caller, call, loop>>

\* Line 82 of get_cached_df(store, SharedKey, et) by caller i: the store's
\* get, atomic.
GetFetch(i, et, getFails) ==
    /\ i \in Readers /\ procs[i].pc = "idle"
    /\ procs' = [procs EXCEPT ![i] =
                    IF getFails
                    THEN [pc |-> "done", etag |-> et, blob |-> NoEntry,
                          outcome |-> "none", table |-> <<>>]
                    ELSE [pc |-> "get_fetched", etag |-> et, blob |-> store[SharedKey],
                          outcome |-> "none", table |-> <<>>]]
    /\ UNCHANGED <<store, written, last, backend, refs, resolved, caller, call, loop>>

\* Line 82 on a store that is not atomic, while caller w is about to write.
GetFetchTorn(i, et, w) ==
    /\ i \in Readers /\ procs[i].pc = "idle"
    /\ w \in Writers /\ procs[w].pc = "put_ready"
    /\ \E torn \in TornBlobs(store[SharedKey], procs[w].blob) :
          procs' = [procs EXCEPT ![i] =
                       [pc |-> "get_fetched_torn", etag |-> et, blob |-> torn,
                        outcome |-> "none", table |-> <<>>]]
    /\ UNCHANGED <<store, written, last, backend, refs, resolved, caller, call, loop>>

\* Lines 83-102 by caller i, on the value its kvstore.get gave.
GetDecode(i) ==
    /\ i \in Readers /\ procs[i].pc \in {"get_fetched", "get_fetched_torn"}
    /\ LET r == get_cached_df([k \in {SharedKey} |-> procs[i].blob], SharedKey,
                              procs[i].etag, FALSE)
       IN  procs' = [procs EXCEPT ![i].pc = IF procs[i].pc = "get_fetched"
                                             THEN "done" ELSE "done_torn",
                                  ![i].outcome = r.outcome,
                                  ![i].table = r.table]
    /\ UNCHANGED <<store, written, last, backend, refs, resolved, caller, call, loop>>

NextConc ==
    \/ \E i \in Writers, et \in Etags, df \in ConcTables : PutSerialize(i, et, df)
    \/ \E i \in Writers, f \in BOOLEAN : PutStore(i, f)
    \/ \E i \in Readers, et \in Etags, f \in BOOLEAN : GetFetch(i, et, f)
    \/ \E i \in Readers, et \in Etags, w \in Writers : GetFetchTorn(i, et, w)
    \/ \E i \in Readers : GetDecode(i)

SpecConc == InitConc /\ [][NextConc]_vars

(***************************************************************************)
(* Properties.                                                             *)
(***************************************************************************)
\* The entry put_cached_df last wrote under the path of the last call.
lastWritten == written[last.path]

\* C1 (as claimed): a get_cached_df with the etag of the last successful
\* put_cached_df of a non-empty table to that path, with no write in
\* between, returns a table equal row for row to the table that was put.
C1_EtagRoundTrip ==
    (/\ last.op = "get" /\ last.fault = "none"
     /\ lastWritten.valid /\ lastWritten.etag = last.etag /\ lastWritten.df # <<>>)
    => (last.outcome = "table" /\ last.table = lastWritten.df)

\* C2: get_cached_df returns a table only when the entry stored under the
\* path carries exactly the etag asked for; with a different stored etag, or
\* with exactly one of the two absent, it returns None.
C2_InvalidationOnChange ==
    LET b == store[last.path]
        carried == IF b.hasEtag THEN b.etag ELSE None
    IN  (last.op = "get" /\ b.kind = "object" /\ carried # last.etag)
        => last.outcome = "none"

C2_Witness ==
    /\ last.op = "get" /\ last.fault = "none" /\ last.etag = "E2"
    /\ lastWritten.valid /\ lastWritten.etag = "E1" /\ lastWritten.df # <<>>
    /\ last.outcome = "none"

\* C3: get_cached_df of a path the store holds no entry for returns None,
\* whatever the etag asked for, None included.
C3_MissOnAbsentKey ==
    (last.op = "get" /\ store[last.path] = NoEntry) => last.outcome = "none"

C3_Witness ==
    /\ last.op = "get" /\ last.path = "never-written.log" /\ last.etag = None
    /\ last.fault = "none"
    /\ store[last.path] = NoEntry /\ store["a.log"] # NoEntry
    /\ last.outcome = "none"

\* C4: get_cached_df returns a table or None and never raises, whatever the
\* store holds under the path and also when the store's get fails; a blob
\* that is not JSON gives None.
C4_ReadNeverErrors ==
    last.op = "get" =>
        /\ last.outcome \in {"table", "none"}
        /\ store[last.path].kind = "malformed" => last.outcome = "none"

C4_Witness ==
    /\ last.op = "get" /\ last.fault = "none"
    /\ store[last.path].kind = "malformed"
    /\ last.outcome = "none"

\* C5: put_cached_df returns normally, both when the table cannot be
\* serialized and when the store's put fails.
C5_WriteNeverThrows == last.op = "put" => last.outcome = "return"

C5_Witness == last.op = "put" /\ last.fault = "serialize" /\ last.outcome = "return"

\* C6: get_cached_df returns None when the records of the stored entry are
\* empty or missing, also with a matching etag; so it does after a
\* put_cached_df of a zero-row table, whatever that write replaced.
C6_EmptyTablePolicy ==
    LET b == store[last.path]
        noRecords == b.kind = "object" /\ (~b.hasRecords \/ (b.shape = "list" /\ b.rows = <<>>))
        putEmpty == lastWritten.valid /\ lastWritten.df = <<>>
    IN  (last.op = "get" /\ (noRecords \/ putEmpty)) => last.outcome = "none"

C6_Witness ==
    /\ last.op = "get" /\ last.fault = "none"
    /\ lastWritten.valid /\ lastWritten.df = <<>> /\ lastWritten.etag = last.etag
    /\ lastWritten.over = "same_etag_rows"
    /\ last.outcome = "none"

\* C7 (as claimed): after a successful put_cached_df(p, E2, T2) the entry
\* under p is exactly {etag: E2, records: rows of T2}, whatever it replaced;
\* a get_cached_df with E2 returns T2 (T2 non-empty) and one with another
\* etag returns None.
C7_LastWriteWins ==
    \A p \in Paths :
        written[p].valid =>
            /\ store[p] = cache_data(written[p].etag, written[p].df)
            /\ (last.op = "get" /\ last.path = p /\ last.fault = "none") =>
                  IF last.etag = written[p].etag
                  THEN written[p].df # <<>> =>
                          (last.outcome = "table" /\ last.table = written[p].df)
                  ELSE last.outcome = "none"

\* C8 (as claimed): in the workflow, the table a caller uses after a cache
\* hit is the table parsed from the source content its etag was resolved
\* from, as it would be without the cache.
C8_CacheIsTransparent ==
    (caller.pc = "done" /\ caller.hit) => caller.used = ParseOf(caller.ver)

\* C9 (as claimed): with current_etag None, get_cached_df returns a table
\* only if the stored entry has an "etag" field and its value is null.
C9_AbsentEtagPolicy ==
    (last.op = "get" /\ last.etag = None /\ last.outcome = "table")
    => (store[last.path].hasEtag /\ store[last.path].etag = None)

\* C10: resolving one directory gives exactly one pair per log file below
\* it, with the etag of that file's FileInfo (None when the backend has no
\* etags); no directory and no other file is in the output.
LogFilesBelow(dir) == {f \in Files : Exists(backend, f) /\ Under(dir, f) /\ f \in LogNames}
C10_DirectoryExpansion ==
    (resolved.outcome = "ok" /\ Len(refs) = 1 /\ refs[1] \in Dirs) =>
        LET expected == LogFilesBelow(refs[1])
            pairs == resolved.pairs
        IN  /\ Len(pairs) = Cardinality(expected)
            /\ \A f \in expected :
                  \E i \in 1..Len(pairs) :
                      pairs[i] = <<f, IF backend.s3 THEN VersionEtag(backend.ver[f]) ELSE None>>
            /\ \A i \in 1..Len(pairs) : pairs[i][1] \in expected

C10_Witness ==
    /\ resolved.outcome = "ok" /\ refs = <<"d">> /\ backend.s3
    /\ \A f \in Files : Exists(backend, f)
    /\ backend.ver["d/b.log"] # backend.ver["d/sub/c.log"]
    /\ Len(resolved.pairs) = 2

C12_ErrorsPropagate ==
    call.failedAt > 0 => (resolved.outcome = "raise" /\ resolved.pairs = <<>>)

C12_Witness ==
    /\ call.failedAt = 2 /\ Len(refs) = 2
    /\ refs[1] = "a.log" /\ Exists(backend, "a.log")
    /\ resolved.outcome = "raise"

\* C20: the resolver removes no duplicates: a log file that the references
\* reach more than once (listed twice, or listed and also below a directory
\* listed) has one pair in the output per time it is reached.
TimesReached(f) ==
    Cardinality({i \in 1..Len(refs) :
                    refs[i] = f \/ (refs[i] \in Dirs /\ Under(refs[i], f))})
C20_DuplicatesKept ==
    resolved.outcome = "ok" =>
        \A f \in Files \cap LogNames :
            Cardinality({i \in 1..Len(resolved.pairs) : resolved.pairs[i][1] = f})
                = IF Exists(backend, f) THEN TimesReached(f) ELSE 0

C20_Witness ==
    /\ resolved.outcome = "ok" /\ refs = <<"d", "d/b.log">>
    /\ Cardinality({i \in 1..Len(resolved.pairs) : resolved.pairs[i][1] = "d/b.log"}) = 2

\* C19: the pairs returned are one per log file the recognizer returns, in
\* its order; the etag of a pair is that of the last FileInfo of that name
\* in log_paths (None when that FileInfo has no etag, or no FileInfo has
\* the name), also for every pair of a name that several FileInfos share.
C19_PairsFromRecognizerAndEtagMap ==
    resolved.outcome = "ok" =>
        LET log_paths == loop.log_paths
            log_files == log_files_from_ls(log_paths)
            pairs == resolved.pairs
        IN  /\ Len(pairs) = Len(log_files)
            /\ \A i \in 1..Len(pairs) :
                  /\ pairs[i][1] = log_files[i].name
                  /\ \/ \E j \in 1..Len(log_paths) :
                           /\ log_paths[j].name = pairs[i][1]
                           /\ \A k \in (j + 1)..Len(log_paths) : log_paths[k].name # pairs[i][1]
                           /\ pairs[i][2] = log_paths[j].etag
                     \/ /\ \A j \in 1..Len(log_paths) : log_paths[j].name # pairs[i][1]
                        /\ pairs[i][2] = None

C19_Witness ==
    /\ resolved.outcome = "ok" /\ refs = <<"d/b.log", "d">>
    /\ loop.log_paths[1].name = "d/b.log" /\ loop.log_paths[1].etag = "E1"
    /\ loop.log_paths[2].name = "d/b.log" /\ loop.log_paths[2].etag = "E2"
    /\ resolved.pairs[1] = <<"d/b.log", "E2">>
    /\ resolved.pairs[2] = <<"d/b.log", "E2">>

\* C13: with only put_cached_df and get_cached_df touching the store, failed
\* and swallowed writes included, every key is absent or holds a JSON object
\* with the keys "etag" (a string or null) and "records" (a list of row
\* objects).
C13_StoredEntryInvariant ==
    \A p \in Paths :
        \/ store[p] = NoEntry
        \/ /\ store[p].kind = "object"
           /\ store[p].hasEtag /\ store[p].etag \in EtagOpt
           /\ store[p].hasRecords /\ store[p].shape = "list"
           /\ \A i \in 1..Len(store[p].rows) : store[p].rows[i].c.t \in {"int", "float"}

C13_Witness ==
    /\ last.op = "put" /\ last.fault = "store" /\ last.path = "a.log"
    /\ store["a.log"] = cache_data(None, ToJsonRecords(written["a.log"].df))
    /\ store["never-written.log"] = cache_data("E1", <<>>)

\* C14: get_cached_df leaves every entry of the store as it is, whatever it
\* returns: a stale or corrupt entry is neither deleted nor repaired.
C14_ReadsNeverMutate ==
    [][last'.op = "get" => store' = store]_vars

C14_Witness ==
    /\ last.op = "get" /\ last.fault = "none" /\ last.etag = "E2" /\ last.outcome = "none"
    /\ lastWritten.valid /\ lastWritten.etag = "E1" /\ lastWritten.df # <<>>
    /\ store[last.path] = cache_data("E1", ToJsonRecords(lastWritten.df))

\* C16: put_cached_df on key p leaves the entry of every other key q, and so
\* what get_cached_df gives for q with any etag, as it was.
C16_KeyIsolation ==
    [][\A q \in Paths :
          (last'.op = "put" /\ last'.path # q) =>
              /\ store'[q] = store[q]
              /\ \A e \in EtagOpt :
                    get_cached_df(store', q, e, FALSE) = get_cached_df(store, q, e, FALSE)]_vars

C16_Witness ==
    /\ last.op = "put" /\ last.fault = "none" /\ last.path = "a.log"
    /\ written["a.log"].over = "other_etag"
    /\ written["never-written.log"].valid
    /\ store["never-written.log"] = cache_data("E1", OneRow)

\* C17 (as claimed): after a successful put_cached_df(p, None, T) of a
\* non-empty T, every get_cached_df(p, None) before the next write to p
\* returns T.
C17_AbsentEtagNeverInvalidates ==
    (/\ last.op = "get" /\ last.fault = "none" /\ last.etag = None
     /\ lastWritten.valid /\ lastWritten.etag = None /\ lastWritten.df # <<>>)
    => (last.outcome = "table" /\ last.table = lastWritten.df)

\* C18: a put_cached_df that fails, in serialization or in the store's put,
\* leaves the store as it was: the entry cached before is still returned for
\* its etag, and the etag of the failed write still misses.
C18_DroppedWriteKeepsEntry ==
    [][(last'.op = "put" /\ last'.fault # "none") =>
          /\ store' = store
          /\ \A e \in EtagOpt :
                get_cached_df(store', last'.path, e, FALSE)
                    = get_cached_df(store, last'.path, e, FALSE)]_vars

C18_Witness ==
    /\ last.op = "put" /\ last.fault = "serialize" /\ last.etag = "E2"
    /\ lastWritten.valid /\ lastWritten.etag = "E1" /\ lastWritten.df # <<>>
    /\ store[last.path] = cache_data("E1", ToJsonRecords(lastWritten.df))
    /\ get_cached_df(store, last.path, "E2", FALSE) = ReturnNone

\* C15 (as claimed): with callers on one key and atomic store operations,
\* once every writer is done the entry is exactly {etag, rows of the table}
\* of the put whose store write came last; and a get_cached_df that returns
\* a table returns the table of one of the puts, whose etag is the etag the
\* get asked for.
C15_SameKeyConcurrency ==
    /\ ((\A w \in Writers : procs[w].pc = "done") /\ written[SharedKey].valid)
          => store[SharedKey] = cache_data(written[SharedKey].etag, written[SharedKey].df)
    /\ \A i \in Readers :
          (procs[i].pc = "done" /\ procs[i].outcome = "table") =>
              \E w \in Writers :
                  /\ procs[w].pc # "idle"
                  /\ procs[w].etag = procs[i].etag
                  /\ procs[w].table = procs[i].table

====
